---- MODULE Spec2Model ----
(***************************************************************************)
(* Magic Staging: the credit balance of an organization, the staging       *)
(* request handler that consumes credits and the Stripe webhook handler    *)
(* that grants them.  Every database statement the handlers await is one   *)
(* step; the statements of db.$transaction form one step.                  *)
(***************************************************************************)
EXTENDS Integers, Sequences, FiniteSets, Bags, TLC

\* ---------------------------------------------------------------- bounds
MaxReqs == 2          \* staging requests that may run concurrently
MaxDeliveries == 2    \* webhook deliveries
MaxDbFaults == 1      \* database statements that may throw
MaxSeedCredits == 1   \* largest balance the account starts with
MaxGrants == 1        \* credit grants racing with the staging requests
MaxCustomers == 2     \* customers created at Stripe
MaxCallers == 2       \* concurrent calls of getOrCreateStripeCustomer

Reqs == 1..MaxReqs
Callers == 1..MaxCallers

\* ------------------------------------------------------------- constants
OrgId == "org_1"
OtherOrgId == "org_2"
Orgs == {OrgId}
UserId == "user_1"
AiCostCents == 4      \* Math.round(0.039 * 100)

\* http status codes of the responses; 0 = no response yet
NoResponse == 0
Ok == 200
BadRequest == 400
PaymentRequired == 402
NotFound == 404
ServerError == 500

\* ------------------------------------------------------------ room images
\* rows of the room_images table: s3Key is a required string, "" allowed
RoomImages ==
  [ img_1 |-> [organizationId |-> OrgId, s3Key |-> "uploads/room1.jpg", projectId |-> "proj_1"],
    img_2 |-> [organizationId |-> OrgId, s3Key |-> "", projectId |-> "proj_1"],
    img_3 |-> [organizationId |-> OtherOrgId, s3Key |-> "uploads/room3.jpg", projectId |-> "proj_2"] ]

RoomImageIds == {"img_1", "img_2", "img_3", "img_0"}   \* img_0 names no row

\* db.roomImage.findFirst({where: {id, organizationId}})
FindRoomImageMutant(id, org) == IF id \in DOMAIN RoomImages THEN id ELSE "none"
FindRoomImage(id, org) ==
  IF id \in DOMAIN RoomImages /\ RoomImages[id].organizationId = org
  THEN id ELSE "none"

ValidStyles == {"modern", "traditional", "minimalist", "luxury", "contemporary", "rustic"}

\* validateStagingRequest: the error string, "" when the request is valid
validateStagingRequest(request) ==
  IF request.roomImageId = "" THEN "Room image ID is required"
  ELSE IF request.organizationId = "" THEN "Organization ID is required"
  ELSE IF request.projectId = "" THEN "Project ID is required"
  ELSE IF request.style \notin ValidStyles THEN "Invalid style selection"
  ELSE ""

\* the StagingJobRequest the handler builds from the room image row
StagingRequest(img) ==
  [roomImageId |-> RoomImages[img].s3Key, organizationId |-> OrgId,
   projectId |-> RoomImages[img].projectId, style |-> "modern"]

\* the credit check: the request goes on unless creditsRemaining < 1
HasCreditsMutant(credits) == ~(credits < 0)
HasCredits(credits) == ~(credits < 1)

\* -------------------------------------------------------------- parseInt
Digits == <<"0", "1", "2", "3", "4", "5", "6", "7", "8", "9">>
IsDigit(c) == \E i \in 1..10 : Digits[i] = c
DigitVal(c) == (CHOOSE i \in 1..10 : Digits[i] = c) - 1
NaN == [isNaN |-> TRUE, value |-> 0]
Num(n) == [isNaN |-> FALSE, value |-> n]

RECURSIVE SkipSpaces(_)
SkipSpaces(s) == IF s # <<>> /\ Head(s) = " " THEN SkipSpaces(Tail(s)) ELSE s

RECURSIVE DigitPrefix(_, _)
\* value of the longest prefix of digits of s, acc the value read so far
DigitPrefix(s, acc) ==
  IF s # <<>> /\ IsDigit(Head(s)) THEN DigitPrefix(Tail(s), acc * 10 + DigitVal(Head(s)))
  ELSE acc

\* parseInt(s, 10): leading blanks, an optional sign, then the digit prefix
parseInt(str) ==
  LET s == SkipSpaces(str)
      neg == s # <<>> /\ Head(s) = "-"
      rest == IF s # <<>> /\ Head(s) \in {"-", "+"} THEN Tail(s) ELSE s
  IN IF rest = <<>> \/ ~IsDigit(Head(rest)) THEN NaN
     ELSE IF neg THEN Num(0 - DigitPrefix(rest, 0)) ELSE Num(DigitPrefix(rest, 0))

\* Number.prototype.toString of a non-negative integer: its decimal digits
RECURSIVE toString(_)
toString(n) ==
  IF n < 10 THEN <<Digits[n + 1]>>
  ELSE toString(n \div 10) \o <<Digits[(n % 10) + 1]>>

\* CREDIT_PACKAGES: the credits of each package id
CreditPackages ==
  ("credits-10" :> 10) @@ ("credits-25" :> 25) @@ ("credits-50" :> 50) @@ ("credits-100" :> 100)

\* the metadata POST /api/payments/create-intent puts on a payment intent
IntentMetadata(packageId) ==
  [organizationId |-> OrgId, userId |-> UserId, packageId |-> packageId,
   credits |-> toString(CreditPackages[packageId])]

\* -------------------------------------------------------- payment intents
\* the payment intents the provider reports; metadata strings are
\* sequences of characters, <<>> and "" stand for a missing field
PaymentIntents ==
  [ pi_1 |-> [amount |-> 4490,
              metadata |-> [organizationId |-> OrgId, userId |-> UserId,
                            packageId |-> "credits-10", credits |-> <<"1", "0">>]],
    pi_2 |-> [amount |-> 4490,
              metadata |-> [organizationId |-> OrgId, userId |-> UserId,
                            packageId |-> "credits-10", credits |-> <<"0">>]],
    pi_3 |-> [amount |-> 4490,
              metadata |-> [organizationId |-> "", userId |-> "",
                            packageId |-> "", credits |-> <<>>]],
    pi_4 |-> [amount |-> 1000,
              metadata |-> [organizationId |-> OrgId, userId |-> UserId,
                            packageId |-> "", credits |-> <<"2", ".", "5">>]],
    pi_5 |-> [amount |-> 1000,
              metadata |-> [organizationId |-> OrgId, userId |-> UserId,
                            packageId |-> "", credits |-> <<"-", "5">>]],
    pi_6 |-> [amount |-> 1000,
              metadata |-> [organizationId |-> OrgId, userId |-> UserId,
                            packageId |-> "", credits |-> <<"x">>]],
    pi_7 |-> [amount |-> 4490,
              metadata |-> [organizationId |-> OrgId, userId |-> "",
                            packageId |-> "credits-10", credits |-> <<"1", "0">>]] ]

\* the intents of the purchase flow, and those whose metadata some other
\* client of the payment provider wrote
PaymentIntentIds == {"pi_1", "pi_2", "pi_3"}
ForeignIntentIds == {"pi_4", "pi_5", "pi_6", "pi_7"}
EventTypes == {"payment_intent.succeeded", "payment_intent.payment_failed", "customer.created"}
Signatures == {"valid", "invalid", "missing"}

\* the stripe-signature header is present and constructEvent accepts it
SignatureOkMutant(sig) == sig # "missing"
SignatureOk(sig) == sig = "valid"

\* ----------------------------------------------------------------- state
VARIABLES
  creditsRemaining,   \* organizations.creditsRemaining, per organization
  seedCredits,        \* the balance each account was seeded with
  stagingJobs,        \* staging_jobs row created by each request, or NoJob
  stagedImages,       \* staged_images rows (bag)
  usageLogs,          \* usage_logs rows (bag)
  transactions,       \* transactions rows (bag)
  pc,                 \* position of each staging request in POST
  seen,               \* userWithOrg.organization.creditsRemaining of each request
  body,               \* outcome of processJobSchema.parse for each request
  roomImage,          \* room image row each request found
  result,             \* result.success of processRoomStaging for each request
  response,           \* http status each request was answered with
  debits,             \* credits each request has taken from the balance
  providerCalls,      \* calls of the AI provider each request has made
  whCount,            \* webhook deliveries received so far
  lastWebhook,        \* the latest webhook delivery and its response
  answered,           \* the answers the provider has seen for each event
  dbFaults,           \* database statements that have thrown so far
  stripeCustomerId,   \* organizations.stripeCustomerId, 0 while null
  stripeCustomers,    \* customers created at Stripe so far
  custPc              \* position of each call of getOrCreateStripeCustomer and
                      \* the customer it holds, 0 for none

vars == <<creditsRemaining, seedCredits, stagingJobs, stagedImages, usageLogs,
          transactions, pc, seen, body, roomImage, result, response, debits,
          providerCalls, whCount, lastWebhook, answered, dbFaults,
          stripeCustomerId, stripeCustomers, custPc>>

dbVars == <<creditsRemaining, stagingJobs, stagedImages, usageLogs, transactions>>
reqVars == <<pc, seen, body, roomImage, result, response, debits, providerCalls>>
whVars == <<whCount, lastWebhook, answered>>
custVars == <<stripeCustomerId, stripeCustomers, custPc>>

NoJob == [status |-> "none", errorMessage |-> "", aiCostCents |-> 0]
NoWebhook == [sig |-> "", type |-> "", pi |-> "", status |-> NoResponse]

Init ==
  /\ seedCredits \in [Orgs -> 0..MaxSeedCredits]
  /\ creditsRemaining = seedCredits
  /\ stagingJobs = [r \in Reqs |-> NoJob]
  /\ stagedImages = EmptyBag
  /\ usageLogs = EmptyBag
  /\ transactions = EmptyBag
  /\ pc = [r \in Reqs |-> "start"]
  /\ seen = [r \in Reqs |-> 0]
  /\ body = [r \in Reqs |-> "unread"]
  /\ roomImage = [r \in Reqs |-> "none"]
  /\ result = [r \in Reqs |-> "none"]
  /\ response = [r \in Reqs |-> NoResponse]
  /\ debits = [r \in Reqs |-> 0]
  /\ providerCalls = [r \in Reqs |-> 0]
  /\ whCount = 0
  /\ lastWebhook = NoWebhook
  /\ answered = {}
  /\ dbFaults = 0
  /\ stripeCustomerId = [o \in Orgs |-> 0]
  /\ stripeCustomers = 0
  /\ custPc = [c \in Callers |-> [at |-> "idle", customer |-> 0]]

\* a database statement may throw while the fault budget lasts
CanFault == dbFaults < MaxDbFaults

\* the response is sent and the request is over
Respond(r, status) ==
  /\ response' = [response EXCEPT ![r] = status]
  /\ pc' = [pc EXCEPT ![r] = "done"]

\* ids of the rows a usage log or a staged image refers to
JobId(r) == <<"job", r>>
IntentId(pi) == <<"pi", pi>>

\* db.stagingJob.update of the job of request r
UpdateJob(r, status, message, cost) ==
  stagingJobs' = [stagingJobs EXCEPT ![r] =
                    [status |-> status, errorMessage |-> message, aiCostCents |-> cost]]

\* a statement inside the inner try throws: control goes to the catch block
ThrowToCatch(r) ==
  /\ CanFault
  /\ dbFaults' = dbFaults + 1
  /\ pc' = [pc EXCEPT ![r] = "catch"]
  /\ UNCHANGED <<dbVars, seen, body, roomImage, result, response, debits, providerCalls, whVars, seedCredits, custVars>>

\* a statement outside the inner try throws: the outer catch answers 500
ThrowToOuter(r) ==
  /\ CanFault
  /\ dbFaults' = dbFaults + 1
  /\ Respond(r, ServerError)
  /\ UNCHANGED <<dbVars, seen, body, roomImage, result, debits, providerCalls, whVars, seedCredits, custVars>>

\* ------------------------------------------------- POST /api/staging/process
\* requireAuthWithOrg: reads the organization row, balance included
Authenticate(r) ==
  /\ pc[r] = "start"
  /\ \E authed \in BOOLEAN :
       IF authed
       THEN /\ seen' = [seen EXCEPT ![r] = creditsRemaining[OrgId]]
            /\ pc' = [pc EXCEPT ![r] = "check"]
            /\ UNCHANGED response
       ELSE /\ Respond(r, ServerError)
            /\ UNCHANGED seen
  /\ UNCHANGED <<dbVars, body, roomImage, result, debits, providerCalls, whVars, seedCredits, custVars, dbFaults>>

\* processJobSchema.parse, then the credit check on the balance read before
CheckCredits(r) ==
  /\ pc[r] = "check"
  /\ \E b \in {"valid", "invalid"} :
       /\ body' = [body EXCEPT ![r] = b]
       /\ IF b = "invalid" THEN Respond(r, BadRequest)
          ELSE IF ~HasCredits(seen[r]) THEN Respond(r, PaymentRequired)
          ELSE /\ pc' = [pc EXCEPT ![r] = "findRoomImage"]
               /\ UNCHANGED response
  /\ UNCHANGED <<dbVars, seen, roomImage, result, debits, providerCalls, whVars, seedCredits, custVars, dbFaults>>

\* db.roomImage.findFirst for the organization of the user
LookupRoomImage(r) ==
  /\ pc[r] = "findRoomImage"
  /\ \E id \in RoomImageIds :
       LET img == FindRoomImage(id, OrgId) IN
       IF img = "none"
       THEN /\ Respond(r, NotFound)
            /\ UNCHANGED roomImage
       ELSE /\ roomImage' = [roomImage EXCEPT ![r] = img]
            /\ pc' = [pc EXCEPT ![r] = "createJob"]
            /\ UNCHANGED response
  /\ UNCHANGED <<dbVars, seen, body, result, debits, providerCalls, whVars, seedCredits, custVars, dbFaults>>

\* db.stagingJob.create with status 'processing'
CreateStagingJob(r) ==
  /\ pc[r] = "createJob"
  /\ \/ /\ UpdateJob(r, "processing", "", 0)
        /\ pc' = [pc EXCEPT ![r] = "validate"]
        /\ UNCHANGED <<creditsRemaining, stagedImages, usageLogs, transactions, seen, body,
                       roomImage, result, response, debits, providerCalls, whVars,
                       seedCredits, custVars, dbFaults>>
     \/ ThrowToOuter(r)

\* validateStagingRequest; an invalid request marks the job failed, a valid
\* one goes on to call processRoomStaging
ValidateRequest(r) ==
  /\ pc[r] = "validate"
  /\ LET error == validateStagingRequest(StagingRequest(roomImage[r])) IN
     IF error # ""
     THEN \/ /\ UpdateJob(r, "failed", error, 0)
             /\ Respond(r, BadRequest)
             /\ UNCHANGED <<creditsRemaining, stagedImages, usageLogs, transactions, seen,
                            body, roomImage, result, debits, providerCalls, whVars,
                            seedCredits, custVars, dbFaults>>
          \/ ThrowToOuter(r)
     ELSE /\ pc' = [pc EXCEPT ![r] = "processRoomStaging"]
          /\ providerCalls' = [providerCalls EXCEPT ![r] = @ + 1]
          /\ UNCHANGED <<dbVars, seen, body, roomImage, result, response, debits, whVars,
                         seedCredits, custVars, dbFaults>>

\* where the handler goes when processRoomStaging has resolved: the success
\* branch or the else branch, never back to the call
AfterProviderMutant(success) == IF success THEN "updateCompleted" ELSE "validate"
AfterProvider(success) == IF success THEN "updateCompleted" ELSE "updateFailed"

\* processRoomStaging resolves: it catches every error itself and reports
\* success or failure in its result
ProviderReturns(r) ==
  /\ pc[r] = "processRoomStaging"
  /\ \E success \in BOOLEAN :
       /\ result' = [result EXCEPT ![r] = IF success THEN "success" ELSE "failure"]
       /\ pc' = [pc EXCEPT ![r] = AfterProvider(success)]
  /\ UNCHANGED <<dbVars, seen, body, roomImage, response, debits, providerCalls, whVars,
                 seedCredits, custVars, dbFaults>>

\* db.stagingJob.update: status 'completed'
UpdateJobCompleted(r) ==
  /\ pc[r] = "updateCompleted"
  /\ \/ /\ UpdateJob(r, "completed", "", AiCostCents)
        /\ pc' = [pc EXCEPT ![r] = "createStagedImage"]
        /\ UNCHANGED <<creditsRemaining, stagedImages, usageLogs, transactions, seen, body,
                       roomImage, result, response, debits, providerCalls, whVars,
                       seedCredits, custVars, dbFaults>>
     \/ ThrowToCatch(r)

\* db.stagedImage.create
CreateStagedImage(r) ==
  /\ pc[r] = "createStagedImage"
  /\ \/ /\ stagedImages' = stagedImages (+)
               SetToBag({[stagingJobId |-> JobId(r), organizationId |-> OrgId]})
        /\ pc' = [pc EXCEPT ![r] = "deductCredit"]
        /\ UNCHANGED <<creditsRemaining, stagingJobs, usageLogs, transactions, seen, body,
                       roomImage, result, response, debits, providerCalls, whVars,
                       seedCredits, custVars, dbFaults>>
     \/ ThrowToCatch(r)

\* the requests that hold an open transaction or a lock on the row of
\* organization o between two of their steps: every statement of the staging
\* handler is awaited by itself, outside any db.$transaction, so none does
OrgRowHoldersMutant(o) == {r \in Reqs : pc[r] = "processRoomStaging"}
OrgRowHolders(o) == {}

\* data: { creditsRemaining: { decrement: 1 } }: the database subtracts from
\* the value it stores, not from the one the request read when it started
DecrementMutant(stored, snapshot) == snapshot - 1
Decrement(stored, snapshot) == stored - 1

\* db.organization.update: creditsRemaining decrement 1
DeductCredit(r) ==
  /\ pc[r] = "deductCredit"
  /\ \/ /\ OrgRowHolders(OrgId) \subseteq {r}
        /\ creditsRemaining' = [creditsRemaining EXCEPT ![OrgId] = Decrement(@, seen[r])]
        /\ debits' = [debits EXCEPT ![r] = @ + 1]
        /\ pc' = [pc EXCEPT ![r] = "logUsage"]
        /\ UNCHANGED <<stagingJobs, stagedImages, usageLogs, transactions, seen, body,
                       roomImage, result, response, providerCalls, whVars, seedCredits, custVars,
                       dbFaults>>
     \/ ThrowToCatch(r)

\* the usage_logs row of a staged room: the cost reported by the provider
\* goes to aiCostCents, billableCredits is the literal 1
RoomStagedUsageLogMutant(r) ==
  [organizationId |-> OrgId, userId |-> UserId, action |-> "room_staged",
   resourceId |-> JobId(r), aiCostCents |-> AiCostCents, billableCredits |-> AiCostCents]
RoomStagedUsageLog(r) ==
  [organizationId |-> OrgId, userId |-> UserId, action |-> "room_staged",
   resourceId |-> JobId(r), aiCostCents |-> AiCostCents, billableCredits |-> 1]

\* db.usageLog.create: action 'room_staged', then the success response
LogUsage(r) ==
  /\ pc[r] = "logUsage"
  /\ \/ /\ usageLogs' = usageLogs (+) SetToBag({RoomStagedUsageLog(r)})
        /\ Respond(r, Ok)
        /\ UNCHANGED <<creditsRemaining, stagingJobs, stagedImages, transactions, seen, body,
                       roomImage, result, debits, providerCalls, whVars, seedCredits, custVars,
                       dbFaults>>
     \/ ThrowToCatch(r)

\* the else branch: db.stagingJob.update: status 'failed'
UpdateJobFailed(r) ==
  /\ pc[r] = "updateFailed"
  /\ \/ /\ UpdateJob(r, "failed", "AI processing failed", stagingJobs[r].aiCostCents)
        /\ Respond(r, ServerError)
        /\ UNCHANGED <<creditsRemaining, stagedImages, usageLogs, transactions, seen, body,
                       roomImage, result, debits, providerCalls, whVars, seedCredits, custVars,
                       dbFaults>>
     \/ ThrowToCatch(r)

\* catch (processingError): db.stagingJob.update: status 'failed'
CatchProcessingError(r) ==
  /\ pc[r] = "catch"
  /\ \/ /\ UpdateJob(r, "failed", "Processing failed", stagingJobs[r].aiCostCents)
        /\ Respond(r, ServerError)
        /\ UNCHANGED <<creditsRemaining, stagedImages, usageLogs, transactions, seen, body,
                       roomImage, result, debits, providerCalls, whVars, seedCredits, custVars,
                       dbFaults>>
     \/ ThrowToOuter(r)

StagingStep(r) ==
  \/ Authenticate(r)
  \/ CheckCredits(r)
  \/ LookupRoomImage(r)
  \/ CreateStagingJob(r)
  \/ ValidateRequest(r)
  \/ ProviderReturns(r)
  \/ UpdateJobCompleted(r)
  \/ CreateStagedImage(r)
  \/ DeductCredit(r)
  \/ LogUsage(r)
  \/ UpdateJobFailed(r)
  \/ CatchProcessingError(r)

\* ------------------------------------------------- POST /api/webhooks/stripe
\* the delivery is recorded together with the status it was answered with
Delivered(sig, type, pi, status) ==
  /\ whCount' = whCount + 1
  /\ lastWebhook' = [sig |-> sig, type |-> type, pi |-> pi, status |-> status]
  /\ answered' = answered \cup {<<type, pi, status>>}

\* the provider has seen the event answered with 200
Acked(type, pi) == <<type, pi, Ok>> \in answered

\* db.$transaction throws: every statement of it is rolled back
RollBackMutant(pi, creditsToAdd) ==
  /\ PaymentIntents[pi].metadata.organizationId \in Orgs
  /\ transactions' = transactions (+) SetToBag({[organizationId |-> PaymentIntents[pi].metadata.organizationId,
         stripePaymentIntentId |-> pi, amountCents |-> PaymentIntents[pi].amount,
         status |-> "succeeded", roomsPurchased |-> creditsToAdd]})
  /\ creditsRemaining' = [creditsRemaining EXCEPT
         ![PaymentIntents[pi].metadata.organizationId] = @ + creditsToAdd]
  /\ UNCHANGED <<stagingJobs, stagedImages, usageLogs>>
RollBack(pi, creditsToAdd) == UNCHANGED dbVars

\* rows written by the transaction of handlePaymentSucceeded
SucceededTransaction(pi, creditsToAdd) ==
  [organizationId |-> PaymentIntents[pi].metadata.organizationId,
   stripePaymentIntentId |-> pi, amountCents |-> PaymentIntents[pi].amount,
   status |-> "succeeded", roomsPurchased |-> creditsToAdd]

PurchaseUsageLogMutant(pi, creditsToAdd) ==
  [organizationId |-> PaymentIntents[pi].metadata.organizationId,
   userId |-> PaymentIntents[pi].metadata.userId,
   action |-> "credits_purchased", resourceId |-> IntentId(pi),
   aiCostCents |-> 0, billableCredits |-> creditsToAdd]
PurchaseUsageLog(pi, creditsToAdd) ==
  [organizationId |-> PaymentIntents[pi].metadata.organizationId,
   userId |-> PaymentIntents[pi].metadata.userId,
   action |-> "credits_purchased", resourceId |-> IntentId(pi),
   aiCostCents |-> 0, billableCredits |-> 0 - creditsToAdd]

\* row written by handlePaymentFailed
FailedTransactionMutant(pi) ==
  [organizationId |-> PaymentIntents[pi].metadata.organizationId,
   stripePaymentIntentId |-> pi, amountCents |-> PaymentIntents[pi].amount,
   status |-> "succeeded", roomsPurchased |-> 0]

FailedTransaction(pi) ==
  [organizationId |-> PaymentIntents[pi].metadata.organizationId,
   stripePaymentIntentId |-> pi, amountCents |-> PaymentIntents[pi].amount,
   status |-> "failed", roomsPurchased |-> 0]

\* handlePaymentSucceeded returns early: metadata missing or credits invalid
MetadataRejected(pi) ==
  LET md == PaymentIntents[pi].metadata IN
  \/ md.organizationId = "" \/ md.userId = "" \/ md.credits = <<>>
  \/ parseInt(md.credits).isNaN
  \/ parseInt(md.credits).value <= 0

\* the signature header is missing or constructEvent throws: 400
WebhookBadSignature ==
  /\ whCount < MaxDeliveries
  /\ \E sig \in Signatures : ~SignatureOk(sig) /\ Delivered(sig, "", "", BadRequest)
  /\ UNCHANGED <<dbVars, reqVars, seedCredits, custVars, dbFaults>>

\* payment_intent.succeeded for one of the intents ids: handlePaymentSucceeded
PaymentSucceeded(ids) ==
  /\ \E sig \in {x \in Signatures : SignatureOk(x)}, pi \in ids :
       LET md == PaymentIntents[pi].metadata
           type == "payment_intent.succeeded" IN
       IF MetadataRejected(pi)
       THEN /\ Delivered(sig, type, pi, Ok)
            /\ UNCHANGED <<dbVars, dbFaults>>
       ELSE LET creditsToAdd == parseInt(md.credits).value IN
            \/ /\ md.organizationId \in Orgs
               /\ OrgRowHolders(md.organizationId) = {}
               /\ transactions' = transactions (+) SetToBag({SucceededTransaction(pi, creditsToAdd)})
               /\ creditsRemaining' = [creditsRemaining EXCEPT ![md.organizationId] = @ + creditsToAdd]
               /\ usageLogs' = usageLogs (+) SetToBag({PurchaseUsageLog(pi, creditsToAdd)})
               /\ Delivered(sig, type, pi, Ok)
               /\ UNCHANGED <<stagingJobs, stagedImages, dbFaults>>
            \/ /\ CanFault \/ md.organizationId \notin Orgs
               /\ dbFaults' = IF md.organizationId \in Orgs THEN dbFaults + 1 ELSE dbFaults
               /\ Delivered(sig, type, pi, ServerError)
               /\ RollBack(pi, creditsToAdd)
  /\ UNCHANGED <<reqVars, seedCredits, custVars>>

WebhookPaymentSucceeded ==
  /\ whCount < MaxDeliveries
  /\ PaymentSucceeded(PaymentIntentIds)

\* payment_intent.payment_failed: handlePaymentFailed
WebhookPaymentFailed ==
  /\ whCount < MaxDeliveries
  /\ \E sig \in {x \in Signatures : SignatureOk(x)}, pi \in PaymentIntentIds :
       LET md == PaymentIntents[pi].metadata
           type == "payment_intent.payment_failed" IN
       IF md.organizationId = ""
       THEN /\ Delivered(sig, type, pi, Ok)
            /\ UNCHANGED <<dbVars, dbFaults>>
       ELSE \/ /\ md.organizationId \in Orgs
               /\ transactions' = transactions (+) SetToBag({FailedTransaction(pi)})
               /\ Delivered(sig, type, pi, Ok)
               /\ UNCHANGED <<creditsRemaining, stagingJobs, stagedImages, usageLogs, dbFaults>>
            \/ /\ CanFault \/ md.organizationId \notin Orgs
               /\ dbFaults' = IF md.organizationId \in Orgs THEN dbFaults + 1 ELSE dbFaults
               /\ Delivered(sig, type, pi, ServerError)
               /\ UNCHANGED dbVars
  /\ UNCHANGED <<reqVars, seedCredits, custVars>>

\* the default branch of the switch: console.log, no database statement
UnhandledEventMutant(type) ==
  /\ transactions' = transactions (+)
       SetToBag({[organizationId |-> OrgId, stripePaymentIntentId |-> "", amountCents |-> 0,
                  status |-> type, roomsPurchased |-> 0]})
  /\ UNCHANGED <<creditsRemaining, stagingJobs, stagedImages, usageLogs>>
UnhandledEvent(type) == UNCHANGED dbVars

\* any other event type: logged and acknowledged
WebhookUnhandled ==
  /\ whCount < MaxDeliveries
  /\ \E sig \in Signatures,
        type \in EventTypes \ {"payment_intent.succeeded", "payment_intent.payment_failed"} :
       SignatureOk(sig) /\ Delivered(sig, type, "", Ok) /\ UnhandledEvent(type)
  /\ UNCHANGED <<reqVars, seedCredits, custVars, dbFaults>>

WebhookStep ==
  \/ WebhookBadSignature
  \/ WebhookPaymentSucceeded
  \/ WebhookPaymentFailed
  \/ WebhookUnhandled

Next ==
  \/ \E r \in Reqs : StagingStep(r)
  \/ WebhookStep

Spec == Init /\ [][Next]_vars

\* a payment-succeeded delivery that grants its credits
GrantDelivered ==
  /\ whCount < MaxGrants
  /\ WebhookPaymentSucceeded
  /\ creditsRemaining' # creditsRemaining

\* the staging requests racing with each other and with credit grants
NextStaging ==
  \/ \E r \in Reqs : StagingStep(r)
  \/ GrantDelivered

SpecStaging == Init /\ [][NextStaging]_vars

\* the webhook deliveries alone, every event delivered any number of times
SpecWebhook == Init /\ [][WebhookStep]_vars

\* the provider redelivers an event until it has seen it answered with 200
RetryDelivery ==
  /\ WebhookStep
  /\ ~Acked(lastWebhook'.type, lastWebhook'.pi)

SpecRetry == Init /\ [][RetryDelivery]_vars

\* payment-succeeded events whose metadata did not come from the purchase flow
ForeignPaymentSucceeded ==
  /\ whCount < MaxDeliveries
  /\ PaymentSucceeded(ForeignIntentIds)

\* payment-succeeded events of every kind of metadata
SpecMetadata == Init /\ [][WebhookPaymentSucceeded \/ ForeignPaymentSucceeded]_vars

\* the steps the server takes by itself once request r has arrived; the
\* return of the awaited provider call is not one of them
ServerStep(r) ==
  /\ pc[r] \notin {"start", "processRoomStaging"}
  /\ StagingStep(r)

\* the server goes on with every request it has accepted; nothing makes the
\* provider answer, and the awaited call carries no timeout
SpecLive == SpecStaging /\ \A r \in Reqs : WF_vars(ServerStep(r))

\* ------------------------------------------------- stripe customer (pricing.ts)
\* the balance after db.organization.update with data { stripeCustomerId }:
\* no other column of the row is written
CreditsAfterCustomerUpdateMutant(o) == 10
CreditsAfterCustomerUpdate(o) == creditsRemaining[o]

\* getOrCreateStripeCustomer: db.organization.findUnique, select stripeCustomerId
FindStripeCustomerId(c) ==
  /\ custPc[c].at = "idle"
  /\ custPc' = [custPc EXCEPT ![c] =
       [at |-> IF stripeCustomerId[OrgId] # 0 THEN "retrieve" ELSE "create",
        customer |-> stripeCustomerId[OrgId]]]
  /\ UNCHANGED <<dbVars, reqVars, whVars, seedCredits, dbFaults, stripeCustomerId,
                 stripeCustomers>>

\* stripe.customers.retrieve: the customer is returned, or it is deleted or
\* the call throws and a new one is created
RetrieveCustomer(c) ==
  /\ custPc[c].at = "retrieve"
  /\ \E next \in {"idle", "create"} : custPc' = [custPc EXCEPT ![c].at = next]
  /\ UNCHANGED <<dbVars, reqVars, whVars, seedCredits, dbFaults, stripeCustomerId,
                 stripeCustomers>>

\* createStripeCustomer: stripe.customers.create
CreateCustomer(c) ==
  /\ custPc[c].at = "create"
  /\ stripeCustomers < MaxCustomers
  /\ stripeCustomers' = stripeCustomers + 1
  /\ custPc' = [custPc EXCEPT ![c] = [at |-> "save", customer |-> stripeCustomers + 1]]
  /\ UNCHANGED <<dbVars, reqVars, whVars, seedCredits, dbFaults, stripeCustomerId>>

\* createStripeCustomer: db.organization.update, data { stripeCustomerId }
SaveStripeCustomerId(c) ==
  /\ custPc[c].at = "save"
  /\ custPc' = [custPc EXCEPT ![c].at = "idle"]
  /\ \/ /\ stripeCustomerId' = [stripeCustomerId EXCEPT ![OrgId] = custPc[c].customer]
        /\ creditsRemaining' = [creditsRemaining EXCEPT ![OrgId] = CreditsAfterCustomerUpdate(OrgId)]
        /\ UNCHANGED dbFaults
     \/ /\ CanFault
        /\ dbFaults' = dbFaults + 1
        /\ UNCHANGED <<stripeCustomerId, creditsRemaining>>
  /\ UNCHANGED <<stagingJobs, stagedImages, usageLogs, transactions, reqVars, whVars,
                 seedCredits, stripeCustomers>>

CustomerStep(c) ==
  \/ FindStripeCustomerId(c)
  \/ RetrieveCustomer(c)
  \/ CreateCustomer(c)
  \/ SaveStripeCustomerId(c)

\* concurrent purchases of one organization, each calling getOrCreateStripeCustomer
SpecCustomer == Init /\ [][\E c \in Callers : CustomerStep(c)]_vars

\* one staging request, with webhook deliveries and customer creation in
\* between its steps
NextFrame ==
  \/ StagingStep(1)
  \/ WebhookStep
  \/ CustomerStep(1)

SpecFrame == Init /\ [][NextFrame]_vars

\* ------------------------------------------------------------ observations
Done(r) == pc[r] = "done"
JobStatus(r) == stagingJobs[r].status

\* sum of F over the rows of bag B, every copy counted
BagSum(B, F(_)) ==
  LET RECURSIVE SumOver(_)
      SumOver(S) == IF S = {} THEN 0
                    ELSE LET e == CHOOSE x \in S : TRUE
                         IN F(e) * CopiesIn(e, B) + SumOver(S \ {e})
  IN SumOver(BagToSet(B))

\* the signed amount a usage log row stands for: billableCredits counts
\* credits used, so a purchase (negative) adds and a staging (positive) takes
LedgerAmount(e) == 0 - e.billableCredits

\* running sum of the ledger entries of organization o
LedgerSum(o) ==
  LET AmountFor(e) == IF e.organizationId = o THEN LedgerAmount(e) ELSE 0
  IN BagSum(usageLogs, AmountFor)

\* number of times the credits of payment intent pi have been granted
GrantsOf(pi) ==
  LET IsGrant(e) == IF e.action = "credits_purchased" /\ e.resourceId = IntentId(pi)
                    THEN 1 ELSE 0
  IN BagSum(usageLogs, IsGrant)

NoGrant == \A e \in BagToSet(usageLogs) : e.action # "credits_purchased"

\* ledger entries that give credits back to the job of request r
RefundEntries(r) ==
  LET IsRefund(e) == IF e.resourceId = JobId(r) /\ e.billableCredits < 0 THEN 1 ELSE 0
  IN BagSum(usageLogs, IsRefund)

\* rows that refer to the job of request r
UsageEntries(r) ==
  LET IsFor(e) == IF e.resourceId = JobId(r) THEN 1 ELSE 0
  IN BagSum(usageLogs, IsFor)

StagedImagesOf(r) ==
  LET IsFor(e) == IF e.stagingJobId = JobId(r) THEN 1 ELSE 0
  IN BagSum(stagedImages, IsFor)

\* ------------------------------------------------------------------ claims

\* C1: in every reachable state, under any interleaving of staging requests
\* and payment webhooks, the credit balance of the organization is >= 0.
C1_BalanceNonNegative == \A o \in Orgs : creditsRemaining[o] >= 0

\* C2: with a balance of 1 and no grant, two concurrent staging requests
\* never both obtain the credit: at most one of them takes a credit and at
\* most one is answered with success.
C2_OneCreditOneWinner ==
  (seedCredits[OrgId] = 1 /\ NoGrant) =>
    /\ Cardinality({r \in Reqs : debits[r] > 0}) <= 1
    /\ Cardinality({r \in Reqs : response[r] = Ok}) <= 1

\* C3: however often the same payment-succeeded event (the same payment
\* intent id) is delivered, its credits are granted at most once.
C3_GrantedOnce == \A pi \in PaymentIntentIds : GrantsOf(pi) <= 1

\* C4: a staging job whose final status is failed has caused no net change
\* of the balance: no credit stays debited for it.
C4_FailedJobKeepsNoCredit ==
  \A r \in Reqs : (Done(r) /\ JobStatus(r) = "failed") => debits[r] = 0

\* C5: at every observation point the running sum of the ledger entries of
\* an organization, the seeding of the account included, equals its balance.
C5_Conservation ==
  \A o \in Orgs : creditsRemaining[o] = seedCredits[o] + LedgerSum(o)

\* C6: a job that ends failed has exactly one refund ledger entry restoring
\* the amount taken for it, and a job that ends completed has none (stated
\* for the failed jobs for which an amount was taken).
C6_RefundCompleteness ==
  \A r \in Reqs :
    Done(r) =>
      /\ (JobStatus(r) = "failed" /\ debits[r] > 0) => RefundEntries(r) = 1
      /\ JobStatus(r) = "completed" => RefundEntries(r) = 0

\* C7: while the AI provider call of a request is in flight, the balance has
\* already been reduced by the 1 credit of that request.
C7_DebitBeforeProviderCall ==
  \A r \in Reqs : pc[r] = "processRoomStaging" => debits[r] = 1

\* C8: a staging request that finds the balance below 1 is answered with 402
\* and leaves no trace: no staging job, no usage entry, no staged image, no
\* credit taken and no call of the AI provider.
C8_InsufficientCreditsNoTrace ==
  \A r \in Reqs :
    (Done(r) /\ body[r] = "valid" /\ seen[r] < 1) =>
      /\ response[r] = PaymentRequired
      /\ JobStatus(r) = "none"
      /\ UsageEntries(r) = 0
      /\ StagedImagesOf(r) = 0
      /\ debits[r] = 0
      /\ providerCalls[r] = 0

\* C8 witness: a well-formed request was made on an empty balance and was
\* answered with 402.
C8_Witness ==
  \E r \in Reqs : /\ Done(r) /\ body[r] = "valid" /\ seen[r] < 1
                  /\ response[r] = PaymentRequired
                  /\ creditsRemaining[OrgId] < 1

\* C9: once the status of a staging job is completed or failed, no later
\* step changes the job.
C9_TerminalJobsImmutable ==
  [][\A r \in Reqs : JobStatus(r) \in {"completed", "failed"}
                       => stagingJobs'[r] = stagingJobs[r]]_vars

\* C10: the status of a job only moves towards processing, then to completed
\* or failed: processing only once a credit is reserved, completed only after
\* the provider returned success, failed only after a provider failure or a
\* failed write downstream of it.
C10_StatusTransitions ==
  [][\A r \in Reqs :
       stagingJobs'[r].status # stagingJobs[r].status =>
         \/ /\ stagingJobs'[r].status \in {"pending", "reserved"}
            /\ JobStatus(r) \in {"none", "pending"}
         \/ /\ stagingJobs'[r].status = "processing"
            /\ JobStatus(r) \in {"none", "pending", "reserved"}
            /\ debits[r] = 1
         \/ /\ stagingJobs'[r].status = "completed"
            /\ JobStatus(r) = "processing"
            /\ result[r] = "success"
         \/ /\ stagingJobs'[r].status = "failed"
            /\ JobStatus(r) = "processing"
            /\ (result[r] = "failure" \/ pc[r] = "catch")]_vars

\* C11: a webhook request whose signature is missing or fails verification
\* is answered with 400 and changes no table: no transaction row, no balance
\* change, no usage entry.
C11_BadSignatureNoEffect ==
  [][(whCount' = whCount + 1 /\ lastWebhook'.sig # "valid") =>
       (lastWebhook'.status = BadRequest /\ UNCHANGED dbVars)]_vars

\* C11 witness: after a grant, a delivery with a bad signature was answered
\* with 400.
C11_Witness ==
  /\ lastWebhook.sig \in {"invalid", "missing"}
  /\ lastWebhook.status = BadRequest
  /\ whCount >= 2
  /\ transactions # EmptyBag

\* a delivery of a payment_intent.payment_failed event happens in this step
FailedPaymentDelivered ==
  /\ whCount' = whCount + 1
  /\ lastWebhook'.type = "payment_intent.payment_failed"

\* the step adds exactly one transactions row, a failed one for intent pi
AddsFailedRow(pi) ==
  \E row \in BagToSet(transactions') :
    /\ transactions' = transactions (+) SetToBag({row})
    /\ row.status = "failed"
    /\ row.roomsPurchased = 0
    /\ row.stripePaymentIntentId = pi
    /\ row.organizationId = PaymentIntents[pi].metadata.organizationId

AckedCredits ==
  LET Valid == {pi \in PaymentIntentIds : ~MetadataRejected(pi)}
      RECURSIVE SumOver(_)
      SumOver(S) == IF S = {} THEN 0
                    ELSE LET pi == CHOOSE x \in S : TRUE
                         IN parseInt(PaymentIntents[pi].metadata.credits).value
                            + SumOver(S \ {pi})
  IN SumOver({pi \in Valid : Acked("payment_intent.succeeded", pi)})

\* number of succeeded transactions rows of payment intent pi
SucceededRows(pi) ==
  LET IsRow(e) == IF e.status = "succeeded" /\ e.stripePaymentIntentId = pi THEN 1 ELSE 0
  IN BagSum(transactions, IsRow)

\* C13 (state part): while the provider redelivers an event only until it is
\* answered 200, the credits of a payment-succeeded event are granted exactly
\* once when it has been answered 200 and not at all before.
C13_GrantedOnceAcked ==
  /\ \A pi \in PaymentIntentIds :
       ~MetadataRejected(pi) =>
         LET n == IF Acked("payment_intent.succeeded", pi) THEN 1 ELSE 0
         IN GrantsOf(pi) = n /\ SucceededRows(pi) = n
  /\ creditsRemaining[OrgId] = seedCredits[OrgId] + AckedCredits

\* C13: a database failure during a grant is answered with 500 with nothing
\* applied, and once the redelivered event is answered 200 its credits have
\* been granted exactly once in total.
C13_RetryGrantsOnce ==
  /\ []C13_GrantedOnceAcked
  /\ [][(whCount' = whCount + 1 /\ dbFaults' = dbFaults + 1) =>
          (lastWebhook'.status = ServerError /\ UNCHANGED dbVars)]_vars

\* C13 witness: the grant of an event failed on the database with 500, the
\* event was redelivered and answered 200, and its credits were granted once.
C13_Witness ==
  /\ <<"payment_intent.succeeded", "pi_1", ServerError>> \in answered
  /\ <<"payment_intent.succeeded", "pi_1", Ok>> \in answered
  /\ GrantsOf("pi_1") = 1
  /\ creditsRemaining[OrgId] = seedCredits[OrgId] + 10

\* C14: every ledger operation is all-or-nothing: once a staging request has
\* ended, each credit taken for it has its single usage entry and each usage
\* entry its credit, and each grant has both its transaction row and its
\* usage entry.
C14_LedgerAllOrNothing ==
  /\ \A r \in Reqs : Done(r) => debits[r] = UsageEntries(r)
  /\ \A pi \in PaymentIntentIds : GrantsOf(pi) = SucceededRows(pi)

\* C15: every staging job that enters processing eventually reaches completed
\* or failed, even when the AI provider never responds.
C15_ProcessingEnds ==
  \A r \in Reqs :
    (JobStatus(r) = "processing") ~> (JobStatus(r) \in {"completed", "failed"})

\* no request other than r has arrived
OnlyRequest(r) == \A r2 \in Reqs \ {r} : pc[r2] = "start"

\* the only event delivered so far is the payment-succeeded event of pi_1
\* (10 credits), delivered n times and answered 200 each time
OnlyEvt1(n) ==
  /\ whCount = n
  /\ answered = {<<"payment_intent.succeeded", "pi_1", Ok>>}

\* C17: the end-to-end scenario from balance 0: the grant of 10 gives 10; a
\* submitted job is processing with the balance 9; a redelivery of the event
\* leaves 10; a submitted and completed job gives 9, job completed, with no
\* refund entry for it.
C17_Scenario ==
  seedCredits[OrgId] = 0 =>
    /\ (OnlyEvt1(1) /\ \A r \in Reqs : pc[r] = "start")
         => creditsRemaining[OrgId] = 10
    /\ \A r \in Reqs :
         (OnlyEvt1(1) /\ OnlyRequest(r) /\ pc[r] = "processRoomStaging")
           => (JobStatus(r) = "processing" /\ creditsRemaining[OrgId] = 9)
    /\ (OnlyEvt1(2) /\ \A r \in Reqs : pc[r] = "start")
         => creditsRemaining[OrgId] = 10
    /\ \A r \in Reqs :
         (OnlyEvt1(1) /\ OnlyRequest(r) /\ Done(r) /\ response[r] = Ok)
           => /\ creditsRemaining[OrgId] = 9
              /\ JobStatus(r) = "completed"
              /\ RefundEntries(r) = 0

C19_NoLostUpdate ==
  \A r \in Reqs :
    ( /\ seedCredits[OrgId] >= 1
      /\ whCount = 1 /\ GrantsOf("pi_1") = 1
      /\ OnlyRequest(r) /\ Done(r) /\ response[r] = Ok )
    => creditsRemaining[OrgId]
         = seedCredits[OrgId] + parseInt(PaymentIntents["pi_1"].metadata.credits).value - 1

\* C19 witness: the request read the balance before the grant was applied,
\* took its credit after it, and both updates are in the final balance.
C19_Witness ==
  \E r \in Reqs :
    /\ seedCredits[OrgId] >= 1
    /\ whCount = 1 /\ GrantsOf("pi_1") = 1
    /\ OnlyRequest(r) /\ Done(r) /\ response[r] = Ok
    /\ seen[r] = seedCredits[OrgId]
    /\ creditsRemaining[OrgId] = seedCredits[OrgId] + 9

\* C20: while a staging request is suspended in the AI provider call, nothing
\* it holds makes the others wait: every other unfinished request can take
\* its next step without a database failure, and a grant can be committed.
C20_SuspendedCallBlocksNobody ==
  \A r \in Reqs :
    pc[r] = "processRoomStaging" =>
      /\ \A r2 \in Reqs \ {r} :
           ~Done(r2) => ENABLED (StagingStep(r2) /\ dbFaults' = dbFaults)
      /\ whCount < MaxGrants => ENABLED GrantDelivered

\* C20 witness: one request is suspended in the provider call while another
\* is about to take its credit and a grant is still to be delivered.
C20_Witness ==
  \E r \in Reqs, r2 \in Reqs :
    /\ pc[r] = "processRoomStaging"
    /\ pc[r2] = "deductCredit"
    /\ whCount < MaxGrants

\* the step commits the grant of a payment-succeeded event
GrantStep ==
  /\ whCount' = whCount + 1
  /\ lastWebhook'.type = "payment_intent.succeeded"
  /\ lastWebhook'.status = Ok
  /\ creditsRemaining'[OrgId]
       = creditsRemaining[OrgId] + parseInt(PaymentIntents[lastWebhook'.pi].metadata.credits).value

\* the step is the decrement of a staging request after its provider call
DebitStep ==
  \E r \in Reqs :
    /\ pc[r] = "deductCredit" /\ pc'[r] = "logUsage"
    /\ creditsRemaining'[OrgId] = creditsRemaining[OrgId] - 1

\* C16: the balance changes only in a step that commits a grant or in the
\* debit step of a staging request; job creation, marking a job failed,
\* recording a failed payment, customer creation and rejected or unhandled
\* webhooks leave it unchanged.
C16_BalanceFrame ==
  [][creditsRemaining' # creditsRemaining => (GrantStep \/ DebitStep)]_vars

\* C16 witness: a customer was created and saved, a job was created and marked
\* failed, a failed payment was recorded and a webhook was rejected or
\* unhandled, and the balance is the one the account started with.
C16_Witness ==
  /\ stripeCustomerId[OrgId] # 0
  /\ \E r \in Reqs : Done(r) /\ JobStatus(r) = "failed"
  /\ \E row \in BagToSet(transactions) : row.status = "failed"
  /\ \E a \in answered : a[3] = BadRequest \/ a[1] = "customer.created"
  /\ creditsRemaining = seedCredits

\* C21: a staging request answered with success has taken exactly 1 credit;
\* the cost reported by the provider is on the job and on the usage entry as
\* aiCostCents, and the usage entry bills 1 credit.
C21_FixedDebit ==
  \A r \in Reqs :
    (Done(r) /\ response[r] = Ok) =>
      /\ debits[r] = 1
      /\ stagingJobs[r].aiCostCents = AiCostCents
      /\ UsageEntries(r) = 1
      /\ \A e \in BagToSet(usageLogs) :
           e.resourceId = JobId(r) =>
             (e.action = "room_staged" /\ e.aiCostCents = AiCostCents /\ e.billableCredits = 1)

\* C21 witness: a request was answered with success, its job carries the
\* reported cost of 4 cents and one credit was taken for it.
C21_Witness ==
  \E r \in Reqs :
    /\ Done(r) /\ response[r] = Ok
    /\ stagingJobs[r].aiCostCents = 4
    /\ debits[r] = 1
    /\ creditsRemaining[OrgId] = seedCredits[OrgId] - 1

\* C22: one staging request calls the AI provider at most once and only for
\* a job it has created, never again after a failure, and takes at most one
\* credit, which it takes only when its provider call has succeeded.
C22_OneJobOneCall ==
  \A r \in Reqs :
    /\ providerCalls[r] <= 1
    /\ providerCalls[r] = 1 => JobStatus(r) # "none"
    /\ result[r] # "none" => providerCalls[r] = 1
    /\ debits[r] <= 1
    /\ debits[r] = 1 => result[r] = "success"

\* C22 witness: a request failed at the provider after one call and without
\* taking a credit, and a second request, the retry, got its own job, called
\* the provider once and took one credit.
C22_Witness ==
  \E r \in Reqs, r2 \in Reqs :
    /\ Done(r) /\ JobStatus(r) = "failed" /\ result[r] = "failure"
    /\ providerCalls[r] = 1 /\ debits[r] = 0
    /\ Done(r2) /\ JobStatus(r2) = "completed" /\ response[r2] = Ok
    /\ providerCalls[r2] = 1 /\ debits[r2] = 1

ValidGrantDelivered ==
  /\ whCount' = whCount + 1
  /\ lastWebhook'.type = "payment_intent.succeeded"
  /\ ~MetadataRejected(lastWebhook'.pi)

\* the step writes exactly the three rows of a grant of c credits for pi
AppliesGrant(pi, c) ==
  /\ \E row \in BagToSet(transactions') :
       /\ transactions' = transactions (+) SetToBag({row})
       /\ row.status = "succeeded" /\ row.roomsPurchased = c
       /\ row.stripePaymentIntentId = pi
       /\ row.organizationId = PaymentIntents[pi].metadata.organizationId
  /\ creditsRemaining' = [creditsRemaining EXCEPT
                             ![PaymentIntents[pi].metadata.organizationId] = @ + c]
  /\ \E e \in BagToSet(usageLogs') :
       /\ usageLogs' = usageLogs (+) SetToBag({e})
       /\ e.action = "credits_purchased" /\ e.billableCredits = 0 - c
       /\ e.resourceId = IntentId(pi)
       /\ e.organizationId = PaymentIntents[pi].metadata.organizationId
  /\ UNCHANGED <<stagingJobs, stagedImages>>

\* the credits of the package the payment intent was created for, when its
\* metadata is what create-intent writes
PackageCreditsMatch(pi) ==
  LET md == PaymentIntents[pi].metadata IN
  (md.packageId \in DOMAIN CreditPackages /\ md = IntentMetadata(md.packageId))
    => parseInt(md.credits).value = CreditPackages[md.packageId]

\* C24: a payment-succeeded event with valid metadata applies as one unit
\* exactly a succeeded transaction row with roomsPurchased = c, a balance
\* increase of c and a credits_purchased usage entry with billableCredits = -c
\* (or nothing at all when the transaction throws), where c is the integer in
\* metadata.credits, the credits of the package the intent was created for.
C24_GrantExact ==
  [][ValidGrantDelivered =>
       LET pi == lastWebhook'.pi
           c == parseInt(PaymentIntents[pi].metadata.credits).value IN
       /\ \/ lastWebhook'.status = Ok /\ AppliesGrant(pi, c)
          \/ lastWebhook'.status = ServerError /\ UNCHANGED dbVars
       /\ PackageCreditsMatch(pi)
       /\ \A p \in DOMAIN CreditPackages :
            parseInt(IntentMetadata(p).credits) = Num(CreditPackages[p])]_vars

\* C24 witness: the event of pi_1, created for the package credits-10, was
\* answered 200 and its three rows are there: 10 credits more, a succeeded
\* transaction of 10 and a usage entry of -10.
C24_Witness ==
  /\ lastWebhook.type = "payment_intent.succeeded"
  /\ lastWebhook.pi = "pi_1" /\ lastWebhook.status = Ok
  /\ PaymentIntents["pi_1"].metadata = IntentMetadata("credits-10")
  /\ creditsRemaining[OrgId] = seedCredits[OrgId] + 10
  /\ \E row \in BagToSet(transactions) : row.status = "succeeded" /\ row.roomsPurchased = 10
  /\ \E e \in BagToSet(usageLogs) : e.action = "credits_purchased" /\ e.billableCredits = 0 - 10

\* creditsRemaining of the success response of request r: the balance read
\* by requireAuthWithOrg minus 1
ResponseCredits(r) == seen[r] - 1

\* C25: the creditsRemaining a successful staging response carries is the
\* stored balance right after the deduction of that request, whatever ran
\* concurrently.
C25_ReturnedBalance ==
  [][\A r \in Reqs :
       (pc[r] = "deductCredit" /\ pc'[r] = "logUsage")
         => creditsRemaining'[OrgId] = ResponseCredits(r)]_vars

\* C26: once all requests have finished, a job with status completed has
\* exactly one staged image, one room_staged usage entry billing 1 credit and
\* one credit taken, and a job with any other status has none of them.
C26_CompletedJobArtifacts ==
  (\A r \in Reqs : Done(r)) =>
    \A r \in Reqs :
      IF JobStatus(r) = "completed"
      THEN /\ StagedImagesOf(r) = 1
           /\ UsageEntries(r) = 1
           /\ debits[r] = 1
           /\ \A e \in BagToSet(usageLogs) :
                e.resourceId = JobId(r) => (e.action = "room_staged" /\ e.billableCredits = 1)
      ELSE StagedImagesOf(r) = 0 /\ UsageEntries(r) = 0 /\ debits[r] = 0

\* the string is the decimal notation of a positive integer
IsPositiveInteger(str) ==
  /\ str # <<>>
  /\ \A i \in 1..Len(str) : IsDigit(str[i])
  /\ DigitPrefix(str, 0) > 0

\* the metadata of pi lacks organizationId, userId or credits, or its credits
\* are not a positive integer
MetadataInvalid(pi) ==
  LET md == PaymentIntents[pi].metadata IN
  \/ md.organizationId = "" \/ md.userId = "" \/ md.credits = <<>>
  \/ ~IsPositiveInteger(md.credits)

\* C27: a payment-succeeded event whose metadata lacks organizationId, userId
\* or credits, or whose credits are not a positive integer, is answered 200
\* and writes nothing: no transaction row, no balance change, no usage entry.
C27_InvalidMetadataIgnored ==
  [][(whCount' = whCount + 1 /\ lastWebhook'.type = "payment_intent.succeeded"
        /\ MetadataInvalid(lastWebhook'.pi))
       => (lastWebhook'.status = Ok /\ UNCHANGED dbVars)]_vars

\* organizationId of the staging job of request r: that of the user
JobOrganizationId(r) == OrgId

\* the room image row belongs to organization o
OwnedBy(img, o) == img \in DOMAIN RoomImages /\ RoomImages[img].organizationId = o

\* a request answered 404 has no job, took no credit and
\* made no provider call, and the room image of every job belongs to the
\* organization of the job.
C28_NotFoundNoTrace ==
  \A r \in Reqs :
    /\ (Done(r) /\ response[r] = NotFound) =>
         (JobStatus(r) = "none" /\ debits[r] = 0 /\ providerCalls[r] = 0)
    /\ JobStatus(r) # "none" => OwnedBy(roomImage[r], JobOrganizationId(r))

C29_UnhandledEventNoEffect ==
  [][(whCount' = whCount + 1 /\ lastWebhook'.sig = "valid"
        /\ lastWebhook'.type \notin {"payment_intent.succeeded", "payment_intent.payment_failed"})
       => (lastWebhook'.status = Ok /\ UNCHANGED dbVars)]_vars

\* C29 witness: after a grant was recorded, a customer.created event was
\* answered 200 and the tables still hold the grant and nothing else.
C29_Witness ==
  /\ lastWebhook.type = "customer.created"
  /\ lastWebhook.sig = "valid" /\ lastWebhook.status = Ok
  /\ BagCardinality(transactions) = 1 /\ BagCardinality(usageLogs) = 1
  /\ creditsRemaining[OrgId] = seedCredits[OrgId] + 10

\* C30: the calls of getOrCreateStripeCustomer of one organization create at
\* most one Stripe customer in all, none once a customer is stored, and when
\* no call is in progress and no write has failed the stored
\* stripeCustomerId names the customer that was created.
C30_OneCustomer ==
  /\ stripeCustomers <= 1
  /\ ( /\ \A c \in Callers : custPc[c].at = "idle"
       /\ stripeCustomers = 1 /\ dbFaults = 0 )
     => stripeCustomerId[OrgId] = 1

====
